---- MODULE Spec2Model ----
(***************************************************************************)
(* Model of scripts/validate_links.py: the markdown link validator.        *)
(* Strings the program inspects (link targets, paths) are sequences of     *)
(* one-character strings, so that strip, startswith, split and the         *)
(* os.path functions are computed character by character.                  *)
(***************************************************************************)
EXTENDS Integers, Sequences, FiniteSets, TLC

VARIABLES fs, check_external, pc, markdown_files, fi, links, li,
          total_links, broken_links, exit_status,
          reqs, outcome, outcomes, gap, gapAtHead, nDelays, probes

vars == <<fs, check_external, pc, markdown_files, fi, links, li,
          total_links, broken_links, exit_status,
          reqs, outcome, outcomes, gap, gapAtHead, nDelays, probes>>

\* ------------------------------------------------------------------ bounds
\* Largest number of link items in the whole documentation tree.
MaxLinks == 2

\* ------------------------------------------------------- string primitives
Whitespace == {" "}

RECURSIVE lstrip(_, _)
lstrip(s, chars) ==
    IF s # <<>> /\ Head(s) \in chars THEN lstrip(Tail(s), chars) ELSE s

RECURSIVE rstrip(_, _)
rstrip(s, chars) ==
    IF s # <<>> /\ s[Len(s)] \in chars
    THEN rstrip(SubSeq(s, 1, Len(s) - 1), chars) ELSE s

\* str.strip()
strip(s) == rstrip(lstrip(s, Whitespace), Whitespace)

\* str.startswith(prefix)
startswith(s, prefix) ==
    Len(s) >= Len(prefix) /\ SubSeq(s, 1, Len(prefix)) = prefix

\* str.endswith(suffix)
endswith(s, suffix) ==
    Len(s) >= Len(suffix)
    /\ SubSeq(s, Len(s) - Len(suffix) + 1, Len(s)) = suffix

\* s.split(sep)[0]: the part of s before the first sep
RECURSIVE split0(_, _)
split0(s, sep) ==
    IF s = <<>> \/ Head(s) = sep THEN <<>>
    ELSE <<Head(s)>> \o split0(Tail(s), sep)

\* s.split('/'): the components of s between slashes (empty ones included)
RECURSIVE splitSlash(_)
splitSlash(s) ==
    LET h == split0(s, "/")
    IN  IF Len(h) = Len(s) THEN <<h>>
        ELSE <<h>> \o splitSlash(SubSeq(s, Len(h) + 2, Len(s)))

\* '/'.join(comps)
RECURSIVE joinSlash(_)
joinSlash(comps) ==
    IF comps = <<>> THEN <<>>
    ELSE IF Len(comps) = 1 THEN comps[1]
    ELSE comps[1] \o <<"/">> \o joinSlash(Tail(comps))

\* ----------------------------------------------------------------- os.path
\* os.path.join(a, b)
path_join(a, b) ==
    IF startswith(b, <<"/">>) THEN b
    ELSE IF a = <<>> \/ endswith(a, <<"/">>) THEN a \o b
    ELSE a \o <<"/">> \o b

\* index after the last '/' of p (0 when there is none): p.rfind('/') + 1
RECURSIVE rfindSlash(_)
rfindSlash(p) ==
    IF p = <<>> THEN 0
    ELSE IF p[Len(p)] = "/" THEN Len(p)
    ELSE rfindSlash(SubSeq(p, 1, Len(p) - 1))

\* os.path.dirname(p)
dirname(p) ==
    LET head == SubSeq(p, 1, rfindSlash(p))
    IN  IF head # <<>> /\ rstrip(head, {"/"}) # <<>>
        THEN rstrip(head, {"/"}) ELSE head

\* the component loop of os.path.normpath
RECURSIVE normComps(_, _, _)
normComps(comps, acc, rooted) ==
    IF comps = <<>> THEN acc
    ELSE LET c == Head(comps)
         IN  IF c = <<>> \/ c = <<".">>
             THEN normComps(Tail(comps), acc, rooted)
             ELSE IF c # <<".", ".">>
                     \/ (~rooted /\ acc = <<>>)
                     \/ (acc # <<>> /\ acc[Len(acc)] = <<".", ".">>)
             THEN normComps(Tail(comps), Append(acc, c), rooted)
             ELSE IF acc # <<>>
             THEN normComps(Tail(comps), SubSeq(acc, 1, Len(acc) - 1), rooted)
             ELSE normComps(Tail(comps), acc, rooted)

\* os.path.normpath(p)
normpath(p) ==
    IF p = <<>> THEN <<".">>
    ELSE LET rooted == startswith(p, <<"/">>)
             slashes == IF ~rooted THEN <<>>
                        ELSE IF startswith(p, <<"/", "/">>)
                                /\ ~startswith(p, <<"/", "/", "/">>)
                        THEN <<"/", "/">> ELSE <<"/">>
             body == slashes \o joinSlash(normComps(splitSlash(p), <<>>, rooted))
         IN  IF body = <<>> THEN <<".">> ELSE body

\* the working directory of the process
Cwd == <<"/">>

\* os.path.abspath(p)
abspath(p) ==
    IF startswith(p, <<"/">>) THEN normpath(p) ELSE normpath(path_join(Cwd, p))

\* ---------------------------------------------------------------- fixtures
\* Path and target strings of the documentation trees explored.
NameR     == <<"r">>
DocsDir   == <<"/">> \o NameR
NameA     == <<"a", ".", "m", "d">>
NameN     == <<"n", ".", "t", "x", "t">>
NameS     == <<"s">>
NameIndex == <<"i", "n", "d", "e", "x", ".", "m", "d">>
PathA     == DocsDir \o <<"/">> \o NameA
PathN     == DocsDir \o <<"/">> \o NameN
PathS     == DocsDir \o <<"/">> \o NameS
PathIndex == PathS \o <<"/">> \o NameIndex

UrlBlank  == <<" ">>
UrlMailto == <<" ", "m", "a", "i", "l", "t", "o", ":", "a">>
UrlJs     == <<"j", "a", "v", "a", "s", "c", "r", "i", "p", "t", ":", "x">>
UrlHttp   == <<"h", "t", "t", "p", ":", "/", "/", "x">>
UrlHttps  == <<"h", "t", "t", "p", "s", ":", "/", "/", "y", " ">>
UrlFrag   == <<"#", "i">>
UrlRel    == NameA
UrlRooted == <<"/">> \o NameA \o <<"#", "i">>
UrlDir    == NameS
UrlUp     == <<" ", ".", ".", "/", "s", "/">>

\* The link syntax a file may hold: [text](url) and [text]: url.
Inline(text, url) == [form |-> "inline", text |-> text, url |-> url]
RefDef(text, url) == [form |-> "reference", text |-> text, url |-> url]

Items ==
    { Inline("t1", UrlBlank), Inline("t2", UrlMailto), RefDef("l3", UrlJs),
      Inline("t4", UrlHttp), RefDef("l5", UrlHttps), Inline("t6", UrlFrag),
      Inline("t7", UrlRel), Inline("t8", UrlRooted), RefDef("l9", UrlDir),
      Inline("t10", UrlUp) }

RECURSIVE SeqsUpTo(_, _)
SeqsUpTo(S, n) ==
    IF n = 0 THEN {<<>>}
    ELSE LET shorter == SeqsUpTo(S, n - 1)
         IN  shorter \cup {Append(s, x) : s \in {t \in shorter : Len(t) = n - 1}, x \in S}

\* File contents: the link items of a file, in document order.
Contents == SeqsUpTo(Items, MaxLinks)

\* ------------------------------------------------------------- file system
\* A file system maps each existing absolute path to its node.
Dir(entries)  == [kind |-> "dir", entries |-> entries, content |-> <<>>]
File(content) == [kind |-> "file", entries |-> <<>>, content |-> content]

Root == <<"/">>

\* docs root with a.md, n.txt and s/index.md
TreeFull(ca, ci) ==
    (Root :> Dir(<<NameR>>)) @@ (DocsDir :> Dir(<<NameA, NameN, NameS>>))
    @@ (PathA :> File(ca)) @@ (PathN :> File(<<Inline("t0", UrlUp)>>))
    @@ (PathS :> Dir(<<NameIndex>>)) @@ (PathIndex :> File(ci))

\* docs root with a.md and an empty directory s
TreeNoIndex(ca) ==
    (Root :> Dir(<<NameR>>)) @@ (DocsDir :> Dir(<<NameS, NameA>>))
    @@ (PathA :> File(ca)) @@ (PathS :> Dir(<<>>))

\* the path given as docs root is a regular file
TreeRootIsFile == (Root :> Dir(<<NameR>>)) @@ (DocsDir :> File(<<>>))

\* the path given as docs root does not exist
TreeMissing == (Root :> Dir(<<>>))

FileSystems ==
    {TreeFull(c[1], c[2]) :
        c \in {d \in Contents \X Contents : Len(d[1]) + Len(d[2]) <= MaxLinks}}
    \cup {TreeNoIndex(ca) : ca \in Contents}
    \cup {TreeRootIsFile, TreeMissing}

\* os.path.exists(p)
exists(fsys, p) == p \in DOMAIN fsys

\* os.path.isdir(p)
isdir(fsys, p) == p \in DOMAIN fsys /\ fsys[p].kind = "dir"

\* the .md files of one directory, joined to it (lines 20-22)
RECURSIVE mdFiles(_, _)
mdFiles(root, names) ==
    IF names = <<>> THEN <<>>
    ELSE (IF endswith(Head(names), <<".", "m", "d">>)
          THEN <<path_join(root, Head(names))>> ELSE <<>>)
         \o mdFiles(root, Tail(names))

\* find_markdown_files(directory): os.walk, top-down
RECURSIVE find_markdown_files(_, _)
find_markdown_files(fsys, directory) ==
    IF ~isdir(fsys, directory) THEN <<>>
    ELSE LET names == fsys[directory].entries
             isFile(n) == ~isdir(fsys, path_join(directory, n))
             files == SelectSeq(names, isFile)
             dirs  == SelectSeq(names, LAMBDA n : ~isFile(n))
             RECURSIVE below(_)
             below(ds) ==
                 IF ds = <<>> THEN <<>>
                 ELSE find_markdown_files(fsys, path_join(directory, Head(ds)))
                      \o below(Tail(ds))
         IN  mdFiles(directory, files) \o below(dirs)

\* ------------------------------------------------------------ extract_links
RECURSIVE MapLinks(_, _)
MapLinks(items, form) ==
    IF items = <<>> THEN <<>>
    ELSE (IF Head(items).form # form THEN <<>>
          ELSE IF form = "inline"
          THEN <<[text |-> Head(items).text, url |-> Head(items).url,
                  type |-> "markdown"]>>
          ELSE <<[text |-> Head(items).text, url |-> strip(Head(items).url),
                  type |-> "reference"]>>)
         \o MapLinks(Tail(items), form)

\* extract_links(file_path): the inline pass, then the reference pass
extract_links(fsys, file_path) ==
    MapLinks(fsys[file_path].content, "inline")
    \o MapLinks(fsys[file_path].content, "reference")

\* ------------------------------------------------------ validate_local_link
\* Reason strings: the fixed text, the status code formatted into it (0 when
\* it has none) and the path or description formatted into it.
Reason(msg, code, detail) == [msg |-> msg, code |-> code, detail |-> detail]
FragmentOnly    == Reason("Fragment only", 0, <<>>)
FileExists      == Reason("File exists", 0, <<>>)
DirWithIndex    == Reason("Directory with index.md", 0, <<>>)
FileNotFound(p) == Reason("File not found: ", 0, p)

\* the path a local target resolves to (lines 66-73)
full_path(clean_url, base_path, docs_root) ==
    abspath(IF startswith(clean_url, <<"/">>)
            THEN path_join(docs_root, lstrip(clean_url, {"/"}))
            ELSE path_join(dirname(base_path), clean_url))

\* validate_local_link without the fragment-only return of lines 62-63
validate_local_link_NoFragmentCase(fsys, link_url, base_path, docs_root) ==
    LET p == full_path(split0(link_url, "#"), base_path, docs_root)
    IN  IF exists(fsys, p)
        THEN [valid |-> TRUE, reason |-> FileExists, probes |-> 1]
        ELSE [valid |-> FALSE, reason |-> FileNotFound(p), probes |-> 2]

\* validate_local_link(link_url, base_path, docs_root); probes is the number
\* of file-system queries the call makes.
validate_local_link(fsys, link_url, base_path, docs_root) ==
    LET clean_url == split0(link_url, "#")
        p == full_path(clean_url, base_path, docs_root)
        index_path == path_join(p, NameIndex)
    IN  IF clean_url = <<>>
        THEN [valid |-> TRUE, reason |-> FragmentOnly, probes |-> 0]
        ELSE IF exists(fsys, p)
        THEN [valid |-> TRUE, reason |-> FileExists, probes |-> 1]
        ELSE IF isdir(fsys, p)
        THEN IF exists(fsys, index_path)
             THEN [valid |-> TRUE, reason |-> DirWithIndex, probes |-> 3]
             ELSE [valid |-> FALSE, reason |-> FileNotFound(p), probes |-> 3]
        ELSE [valid |-> FALSE, reason |-> FileNotFound(p), probes |-> 2]

\* ------------------------------------------------------------ classification
\* the dispatch without the mailto: test of lines 138-139
Classify_NoMailto(url) ==
    IF url = <<>> THEN "skip"
    ELSE IF startswith(url, <<"j", "a", "v", "a", "s", "c", "r", "i", "p", "t", ":">>)
    THEN "skip"
    ELSE IF startswith(url, <<"h", "t", "t", "p", ":", "/", "/">>)
            \/ startswith(url, <<"h", "t", "t", "p", "s", ":", "/", "/">>)
    THEN "external"
    ELSE "local"

\* the dispatch of one trimmed target (lines 134-146)
Classify(url) ==
    IF url = <<>> THEN "skip"
    ELSE IF startswith(url, <<"m", "a", "i", "l", "t", "o", ":">>) THEN "skip"
    ELSE IF startswith(url, <<"j", "a", "v", "a", "s", "c", "r", "i", "p", "t", ":">>)
    THEN "skip"
    ELSE IF startswith(url, <<"h", "t", "t", "p", ":", "/", "/">>)
            \/ startswith(url, <<"h", "t", "t", "p", "s", ":", "/", "/">>)
    THEN "external"
    ELSE "local"

\* --------------------------------------------------- validate_external_link
Statuses == {200, 404, 500}

\* What a request ends in: a response with a status, or a raised exception.
Response(status) == [kind |-> "response", status |-> status, desc |-> <<>>]
Raised(kind)     == [kind |-> kind, status |-> 0, desc |-> <<"e">>]
Exceptions == {"Timeout", "ConnectionError", "RequestException"}
Responses  == {Response(s) : s \in Statuses} \cup {Raised(k) : k \in Exceptions}

\* the except clauses with the catch-all clause of line 105 placed first
ExceptionResult_CatchAllFirst(resp) ==
    [valid |-> FALSE, reason |-> Reason("Request error: ", 0, resp.desc)]

\* the except clauses (lines 101-106)
ExceptionResult(resp) ==
    IF resp.kind = "Timeout" THEN [valid |-> FALSE, reason |-> Reason("Timeout", 0, <<>>)]
    ELSE IF resp.kind = "ConnectionError"
    THEN [valid |-> FALSE, reason |-> Reason("Connection error", 0, <<>>)]
    ELSE [valid |-> FALSE, reason |-> Reason("Request error: ", 0, resp.desc)]

\* the GET fallback taken after any failed HEAD, raised exceptions included
NeedsGet_AnyFailure(resp) == ~(resp.kind = "response" /\ resp.status < 400)

\* whether the HEAD response sends the check on to GET (lines 92-96)
NeedsGet(resp) == resp.kind = "response" /\ ~(resp.status < 400)

\* the result when the check ends with the HEAD request (lines 91-93, 101-106)
HeadResult(resp) ==
    IF resp.kind = "response"
    THEN [valid |-> TRUE, reason |-> Reason("HTTP", resp.status, <<>>)]
    ELSE ExceptionResult(resp)

\* the GET fallback judged by status < 500 in place of status < 400
GetResult_Lt500(resp) ==
    IF resp.kind = "response"
    THEN IF resp.status < 500
         THEN [valid |-> TRUE, reason |-> Reason("HTTP (GET)", resp.status, <<>>)]
         ELSE [valid |-> FALSE, reason |-> Reason("HTTP", resp.status, <<>>)]
    ELSE ExceptionResult(resp)

\* the result of the GET fallback (lines 96-106)
GetResult(resp) ==
    IF resp.kind = "response"
    THEN IF resp.status < 400
         THEN [valid |-> TRUE, reason |-> Reason("HTTP (GET)", resp.status, <<>>)]
         ELSE [valid |-> FALSE, reason |-> Reason("HTTP", resp.status, <<>>)]
    ELSE ExceptionResult(resp)

\* ------------------------------------------------------------ validate_links
NoOutcome == [valid |-> FALSE, reason |-> Reason("none", 0, <<>>)]
NotExited == -1

file_path == markdown_files[fi]
link      == links[li + 1]
url       == strip(link.url)
InLoop    == pc = "links" /\ li < Len(links)

\* broken_links with the append of lines 150-156 left out
Recorded_LocalOnly(broken, res, type) ==
    IF ~res.valid /\ type = "local"
    THEN Append(broken, [file |-> file_path, url |-> url, text |-> link.text,
                         reason |-> res.reason, type |-> type])
    ELSE broken

\* broken_links after a check returned res (lines 149-156 and 162-169)
Recorded(broken, res, type) ==
    IF ~res.valid
    THEN Append(broken, [file |-> file_path, url |-> url, text |-> link.text,
                         reason |-> res.reason, type |-> type])
    ELSE broken

\* the record of one performed check
Checked(res, type) ==
    [file |-> file_path, raw |-> link.url, url |-> url, text |-> link.text,
     type |-> type, valid |-> res.valid, reason |-> res.reason]

Request(method, resp) == [method |-> method, url |-> url, resp |-> resp]

\* the process exit status (lines 186, 204)
ExitStatus(broken) == IF Len(broken) = 0 THEN 0 ELSE 1

\* the check_external test of line 147, always taken
ExternalEnabled_Always == TRUE

\* the check_external test of line 147
ExternalEnabled == check_external

\* whether main goes on to validate_links (line 197)
PreFlight(fsys, docs_dir) == exists(fsys, docs_dir)

Init ==
    /\ fs \in FileSystems
    /\ check_external \in BOOLEAN
    /\ pc = "main"
    /\ markdown_files = <<>>
    /\ fi = 0
    /\ links = <<>>
    /\ li = 0
    /\ total_links = 0
    /\ broken_links = <<>>
    /\ exit_status = NotExited
    /\ reqs = <<>>
    /\ outcome = NoOutcome
    /\ outcomes = <<>>
    /\ gap = -1
    /\ gapAtHead = -1
    /\ nDelays = 0
    /\ probes = 0

\* main up to the file loop of validate_links (lines 195-202, 112-122)
Main ==
    /\ pc = "main"
    /\ IF ~PreFlight(fs, DocsDir)
       THEN /\ exit_status' = 1
            /\ pc' = "done"
            /\ UNCHANGED markdown_files
       ELSE /\ markdown_files' = find_markdown_files(fs, DocsDir)
            /\ pc' = "files"
            /\ UNCHANGED exit_status
    /\ UNCHANGED <<fs, check_external, fi, links, li, total_links, broken_links,
                   reqs, outcome, outcomes, gap, gapAtHead, nDelays, probes>>

\* the head of one iteration of the file loop (lines 124-128)
NextFile ==
    /\ pc = "files"
    /\ fi < Len(markdown_files)
    /\ fi' = fi + 1
    /\ links' = extract_links(fs, markdown_files[fi + 1])
    /\ total_links' = total_links + Len(links')
    /\ li' = 0
    /\ pc' = "links"
    /\ UNCHANGED <<fs, check_external, markdown_files, broken_links, exit_status,
                   reqs, outcome, outcomes, gap, gapAtHead, nDelays, probes>>

\* the link loop of one file is exhausted
EndOfFile ==
    /\ pc = "links"
    /\ li = Len(links)
    /\ pc' = "files"
    /\ UNCHANGED <<fs, check_external, markdown_files, fi, links, li, total_links,
                   broken_links, exit_status, reqs, outcome, outcomes, gap,
                   gapAtHead, nDelays, probes>>

\* an empty, mailto: or javascript: target (lines 131-143)
SkipLink ==
    /\ InLoop
    /\ Classify(url) = "skip"
    /\ li' = li + 1
    /\ outcome' = NoOutcome
    /\ UNCHANGED <<fs, check_external, pc, markdown_files, fi, links, total_links,
                   broken_links, exit_status, reqs, outcomes, gap, gapAtHead,
                   nDelays, probes>>

\* an external target with external checking disabled (lines 146-147, 158)
ExternalDisabled ==
    /\ InLoop
    /\ Classify(url) = "external"
    /\ ~ExternalEnabled
    /\ li' = li + 1
    /\ outcome' = NoOutcome
    /\ UNCHANGED <<fs, check_external, pc, markdown_files, fi, links, total_links,
                   broken_links, exit_status, reqs, outcomes, gap, gapAtHead,
                   nDelays, probes>>

\* the HEAD request of an external check, and the end of the check when it
\* ends there (lines 146-156, 91-93, 101-106)
HeadRequest ==
    /\ InLoop
    /\ Classify(url) = "external"
    /\ ExternalEnabled
    /\ \E resp \in Responses :
          /\ reqs' = <<Request("HEAD", resp)>>
          /\ IF NeedsGet(resp)
             THEN /\ pc' = "get"
                  /\ outcome' = NoOutcome
                  /\ UNCHANGED <<broken_links, outcomes>>
             ELSE /\ pc' = "sleep"
                  /\ outcome' = HeadResult(resp)
                  /\ outcomes' = Append(outcomes, Checked(HeadResult(resp), "external"))
                  /\ broken_links' = Recorded(broken_links, HeadResult(resp), "external")
    /\ gapAtHead' = gap
    /\ gap' = 0
    /\ UNCHANGED <<fs, check_external, markdown_files, fi, links, li, total_links,
                   exit_status, nDelays, probes>>

\* the GET fallback and the end of the check (lines 96-106, 149-156)
GetRequest ==
    /\ pc = "get"
    /\ \E resp \in Responses :
          /\ reqs' = Append(reqs, Request("GET", resp))
          /\ outcome' = GetResult(resp)
          /\ outcomes' = Append(outcomes, Checked(GetResult(resp), "external"))
          /\ broken_links' = Recorded(broken_links, GetResult(resp), "external")
    /\ pc' = "sleep"
    /\ gap' = 0
    /\ UNCHANGED <<fs, check_external, markdown_files, fi, links, li, total_links,
                   exit_status, gapAtHead, nDelays, probes>>

\* time.sleep(0.1) moved into the `if not is_valid` block of lines 149-156
Sleep_OnlyAfterInvalid ==
    /\ pc = "sleep"
    /\ nDelays' = IF outcome.valid THEN nDelays ELSE nDelays + 1
    /\ gap' = IF outcome.valid THEN gap ELSE gap + 1
    /\ li' = li + 1
    /\ pc' = "links"
    /\ reqs' = <<>>
    /\ UNCHANGED <<fs, check_external, markdown_files, fi, links, total_links,
                   broken_links, exit_status, outcome, outcomes, gapAtHead, probes>>

\* time.sleep(0.1) and the continue after it (lines 157-158)
Sleep ==
    /\ pc = "sleep"
    /\ nDelays' = nDelays + 1
    /\ gap' = gap + 1
    /\ li' = li + 1
    /\ pc' = "links"
    /\ reqs' = <<>>
    /\ UNCHANGED <<fs, check_external, markdown_files, fi, links, total_links,
                   broken_links, exit_status, outcome, outcomes, gapAtHead, probes>>

\* a local target (lines 160-169)
LocalLink ==
    /\ InLoop
    /\ Classify(url) = "local"
    /\ LET res == validate_local_link(fs, url, file_path, DocsDir)
       IN  /\ outcome' = [valid |-> res.valid, reason |-> res.reason]
           /\ outcomes' = Append(outcomes, Checked(res, "local"))
           /\ broken_links' = Recorded(broken_links, res, "local")
           /\ probes' = probes + res.probes
    /\ li' = li + 1
    /\ UNCHANGED <<fs, check_external, pc, markdown_files, fi, links, total_links,
                   exit_status, reqs, gap, gapAtHead, nDelays>>

\* the report and the exit (lines 171-186, 204)
Finish ==
    /\ pc = "files"
    /\ fi = Len(markdown_files)
    /\ exit_status' = ExitStatus(broken_links)
    /\ pc' = "done"
    /\ UNCHANGED <<fs, check_external, markdown_files, fi, links, li, total_links,
                   broken_links, reqs, outcome, outcomes, gap, gapAtHead, nDelays,
                   probes>>

Next ==
    \/ Main
    \/ NextFile
    \/ EndOfFile
    \/ SkipLink
    \/ ExternalDisabled
    \/ HeadRequest
    \/ GetRequest
    \/ Sleep
    \/ LocalLink
    \/ Finish

Spec == Init /\ [][Next]_vars

\* -------------------------------------------------------------- properties
\* The link items of the files scanned so far, in scan order.
RECURSIVE ItemsUpTo(_)
ItemsUpTo(n) ==
    IF n = 0 THEN <<>> ELSE ItemsUpTo(n - 1) \o fs[markdown_files[n]].content

MailtoPrefix == <<"m", "a", "i", "l", "t", "o", ":">>
JsPrefix     == <<"j", "a", "v", "a", "s", "c", "r", "i", "p", "t", ":">>
HttpPrefix   == <<"h", "t", "t", "p", ":", "/", "/">>
HttpsPrefix  == <<"h", "t", "t", "p", "s", ":", "/", "/">>

IsSkipTarget(u) ==
    strip(u) = <<>> \/ startswith(strip(u), MailtoPrefix) \/ startswith(strip(u), JsPrefix)
IsExternalTarget(u) ==
    ~IsSkipTarget(u)
    /\ (startswith(strip(u), HttpPrefix) \/ startswith(strip(u), HttpsPrefix))
IsLocalTarget(u) == ~IsSkipTarget(u) /\ ~IsExternalTarget(u)
IsFragmentOnly(u) == IsLocalTarget(u) /\ Head(strip(u)) = "#"

IsChecked(item) ==
    IsLocalTarget(item.url) \/ (IsExternalTarget(item.url) /\ check_external)
IsExternalOutcome(o) == o.type = "external"
ExtDone    == Len(SelectSeq(outcomes, IsExternalOutcome))
ExtStarted == ExtDone + (IF pc = "get" THEN 1 ELSE 0)
AllResponded == \A i \in 1..Len(reqs) : reqs[i].resp.kind = "response"
FailureReason(resp) ==
    IF resp.kind = "Timeout" THEN Reason("Timeout", 0, <<>>)
    ELSE IF resp.kind = "ConnectionError" THEN Reason("Connection error", 0, <<>>)
    ELSE Reason("Request error: ", 0, resp.desc)

\* C1: a local target that resolves to an existing directory is valid if the
\* directory holds index.md and invalid if it does not.
C1_DirectoryNeedsIndex ==
    \A i \in 1..Len(outcomes) :
        LET o == outcomes[i]
            p == full_path(split0(o.url, "#"), o.file, DocsDir)
        IN  o.type = "local" /\ ~IsFragmentOnly(o.url) /\ isdir(fs, p)
            => (o.valid <=> exists(fs, p \o <<"/">> \o NameIndex))

\* C2: when every request of an external check got an HTTP response, the link
\* is valid iff HEAD < 400, or HEAD >= 400 and GET < 400; valid through GET is
\* marked as such, and invalid carries the status of the GET response.
C2_ExternalStatus ==
    pc = "sleep" /\ AllResponded =>
        LET h == reqs[1].resp.status
            g == reqs[Len(reqs)].resp.status
        IN  /\ outcome.valid <=> (h < 400 \/ (h >= 400 /\ Len(reqs) = 2 /\ g < 400))
            /\ outcome.valid /\ h < 400 => outcome.reason = Reason("HTTP", h, <<>>)
            /\ outcome.valid /\ h >= 400 => outcome.reason = Reason("HTTP (GET)", g, <<>>)
            /\ ~outcome.valid => Len(reqs) = 2 /\ outcome.reason = Reason("HTTP", g, <<>>)

\* 500 on HEAD then 200 on GET: valid through the GET fallback
C2_Witness ==
    /\ pc = "sleep" /\ Len(reqs) = 2
    /\ reqs[1].resp = Response(500) /\ reqs[2].resp = Response(200)
    /\ outcome.valid /\ outcome.reason.msg = "HTTP (GET)"

\* C3: a GET is issued only after a HEAD to the same URL returned a status of
\* 400 or above; a HEAD that raises ends the check without a GET, invalid with
\* reason Timeout, Connection error or the failure description.
C3_GetOnlyAfterHttpFailure ==
    /\ reqs # <<>> => reqs[1].method = "HEAD"
    /\ pc = "get" => Len(reqs) = 1
    /\ pc = "get" \/ Len(reqs) >= 2 =>
          /\ reqs[1].resp.kind = "response" /\ reqs[1].resp.status >= 400
          /\ \A i \in 2..Len(reqs) : reqs[i].method = "GET" /\ reqs[i].url = reqs[1].url
    /\ reqs # <<>> /\ reqs[1].resp.kind # "response" =>
          /\ Len(reqs) = 1 /\ pc = "sleep"
          /\ ~outcome.valid /\ outcome.reason = FailureReason(reqs[1].resp)

\* a HEAD that timed out ended its check
C3_Witness ==
    /\ pc = "sleep" /\ Len(reqs) = 1
    /\ reqs[1].resp.kind = "Timeout" /\ outcome.reason.msg = "Timeout"

\* C4: a link whose trimmed target is empty or starts with mailto: or
\* javascript: counts once in total_links, runs no local or external check and
\* never enters broken_links.
C4_SkipStep ==
    InLoop /\ IsSkipTarget(link.url) =>
        /\ li' = li + 1 /\ pc' = "links"
        /\ total_links' = total_links
        /\ broken_links' = broken_links /\ outcomes' = outcomes
        /\ probes' = probes /\ reqs' = reqs /\ gap' = gap /\ nDelays' = nDelays

C4_SkippedLinks ==
    /\ [](total_links = Len(ItemsUpTo(fi)))
    /\ [](\A i \in 1..Len(broken_links) : ~IsSkipTarget(broken_links[i].url))
    /\ [][C4_SkipStep]_vars

\* a mailto: link has just been passed over
C4_Witness ==
    /\ pc = "links" /\ li > 0 /\ links[li].url = UrlMailto
    /\ total_links = Len(links) /\ outcome = NoOutcome

\* C5: with external checking disabled no http:// or https:// target yields an
\* outcome, a request or a delay; each still counts in total_links and every
\* local link is checked.
C5_ExternalDisabled ==
    ~check_external =>
        /\ reqs = <<>> /\ gap = -1 /\ gapAtHead = -1 /\ nDelays = 0
        /\ pc \notin {"get", "sleep"}
        /\ \A i \in 1..Len(outcomes) : outcomes[i].type = "local"
        /\ \A i \in 1..Len(broken_links) : broken_links[i].type = "local"
        /\ total_links = Len(ItemsUpTo(fi))
        /\ pc = "files" =>
              Len(outcomes) =
                  Len(SelectSeq(ItemsUpTo(fi), LAMBDA it : IsLocalTarget(it.url)))

\* an external link has just been passed over with checking disabled
C5_Witness ==
    /\ ~check_external /\ pc = "links" /\ li > 0
    /\ IsExternalTarget(links[li].url) /\ total_links > 0

\* C6: the exit status is 0 exactly when the docs root exists as a directory
\* and broken_links ends empty, and 1 otherwise; a missing directory ends the
\* run before any file is scanned.
C6_ExitStatus ==
    pc = "done" =>
        /\ exit_status = 0 <=> (isdir(fs, DocsDir) /\ broken_links = <<>>)
        /\ exit_status = 1 <=> (~isdir(fs, DocsDir) \/ broken_links # <<>>)
        /\ ~isdir(fs, DocsDir) => fi = 0 /\ outcomes = <<>>

\* C7: between the last request of one external check and the first request
\* of the next there is exactly one delay; every external check, valid or
\* not, is followed by one, and nothing else takes one.
C7_PolitenessDelay ==
    /\ gapAtHead \in {-1, 1}
    /\ ExtStarted >= 2 => gapAtHead = 1
    /\ gap \in {-1, 0, 1}
    /\ nDelays = ExtDone - (IF pc = "sleep" THEN 1 ELSE 0)

\* an external check in the second file, begun one delay after a valid one
C7_Witness ==
    /\ fi = 2 /\ li = 0 /\ pc = "sleep" /\ gapAtHead = 1
    /\ outcomes[1].type = "external" /\ outcomes[1].valid

\* C8: a local target that is only a fragment is valid with the fragment-only
\* reason, with no file-system query, and never enters broken_links.
C8_FragmentStep ==
    InLoop /\ IsFragmentOnly(link.url) =>
        /\ outcome' = [valid |-> TRUE, reason |-> FragmentOnly]
        /\ outcomes' = Append(outcomes, [file |-> file_path, raw |-> link.url,
                                         url |-> strip(link.url),
                                         text |-> link.text, type |-> "local",
                                         valid |-> TRUE, reason |-> FragmentOnly])
        /\ probes' = probes
        /\ broken_links' = broken_links

C8_FragmentOnly == [][C8_FragmentStep]_vars

\* a fragment-only link of s/index.md has been judged
C8_Witness ==
    /\ fi = 2 /\ li > 0 /\ links[li].url = UrlFrag
    /\ outcome = [valid |-> TRUE, reason |-> FragmentOnly]

\* the entries broken_links should hold for the invalid checks of os, target
\* taken as extracted (raw) or as trimmed
RECURSIVE InvalidEntries(_, _)
InvalidEntries(os, trimmed) ==
    IF os = <<>> THEN <<>>
    ELSE (IF Head(os).valid THEN <<>>
          ELSE <<[file |-> Head(os).file,
                  url |-> IF trimmed THEN strip(Head(os).raw) ELSE Head(os).raw,
                  text |-> Head(os).text,
                  reason |-> Head(os).reason, type |-> Head(os).type]>>)
         \o InvalidEntries(Tail(os), trimmed)

AllChecked ==
    pc = "files" => Len(outcomes) = Len(SelectSeq(ItemsUpTo(fi), IsChecked))

C9_KeepsEntries ==
    /\ Len(broken_links') >= Len(broken_links)
    /\ SubSeq(broken_links', 1, Len(broken_links)) = broken_links

\* C9 as stated: broken_links holds, in check order, exactly one entry for
\* each check that returned invalid, carrying file, raw target, text, reason
\* and category; every checkable link of the scanned files is checked, and an
\* entry once added is never changed or removed.
C9_RawTargetEntries ==
    /\ [](broken_links = InvalidEntries(outcomes, FALSE))
    /\ [](AllChecked)
    /\ [][C9_KeepsEntries]_vars

\* C9 amended: as stated, except that an entry carries the target trimmed of
\* surrounding whitespace (url = link['url'].strip(), lines 131 and 165).
C9_InvalidOutcomes ==
    /\ [](broken_links = InvalidEntries(outcomes, TRUE))
    /\ [](AllChecked)
    /\ [][C9_KeepsEntries]_vars

\* a run ended with a broken local link, written with a leading blank, followed
\* by a broken external link
C9_Witness ==
    /\ pc = "done" /\ Len(broken_links) = 2
    /\ broken_links[1].type = "local" /\ broken_links[2].type = "external"
    /\ outcomes[1].raw = UrlUp /\ broken_links[1].url = strip(UrlUp)

\* C10: an external check makes one HEAD and at most one GET and has one
\* outcome; a failure raised by the GET fallback gives the reason the same
\* failure gives on HEAD, is recorded as one broken external link and leaves
\* the run going.
C10_GetFailure ==
    /\ Len(reqs) <= 2
    /\ pc = "sleep" =>
          /\ reqs # <<>> /\ reqs[1].method = "HEAD"
          /\ outcome.reason.msg # "none"
          /\ outcomes # <<>> /\ outcomes[Len(outcomes)].type = "external"
          /\ outcomes[Len(outcomes)].reason = outcome.reason
          /\ exit_status = NotExited
    /\ pc = "sleep" /\ Len(reqs) = 2 /\ reqs[2].resp.kind # "response" =>
          /\ reqs[2].method = "GET"
          /\ ~outcome.valid /\ outcome.reason = FailureReason(reqs[2].resp)
          /\ broken_links # <<>>
          /\ broken_links[Len(broken_links)].type = "external"
          /\ broken_links[Len(broken_links)].reason = outcome.reason
          /\ broken_links[Len(broken_links)].url = reqs[2].url

\* the GET fallback lost its connection
C10_Witness ==
    /\ pc = "sleep" /\ Len(reqs) = 2
    /\ reqs[2].resp.kind = "ConnectionError"
    /\ outcome.reason.msg = "Connection error"

====
